---------------------------- MODULE Spec2Model ----------------------------
(***************************************************************************)
(* Huffman coding (src/main.py): Node, HTree (create_tree, the code table, *)
(* encode_char), frequencies and encode.                                   *)
(*                                                                         *)
(* A Python str is a sequence of one-character strings, so that            *)
(* concatenation (+), equality and the substring test (in) are computed    *)
(* as Python computes them.  Node objects live in a store `nodes`; a node  *)
(* reference is its index in the store (its creation rank), None is 0.     *)
(***************************************************************************)
EXTENDS Integers, Sequences, FiniteSets, TLC

VARIABLES
    text,           \* s: the text handed to frequencies / encode
    freq,           \* freq: the frequency table handed to create_tree / encode
    nodes,          \* the Node objects created by the running/last create_tree
    free_leaves,    \* create_tree's priority queue (a heapq list of node refs)
    l_leaf,         \* create_tree's local l_leaf
    r_leaf,         \* create_tree's local r_leaf
    root,           \* HTree.root
    encode_table,   \* HTree.encode_table
    exc,            \* exception raised by the last operation ("" if none)
    ret,            \* value returned by the last encode_char / encode
    pc,             \* position of the running operation
    at,             \* index in text at which encode's loop stopped (0: not run)
    calls           \* number of create_tree calls made on the HTree instance

vars == <<text, freq, nodes, free_leaves, l_leaf, r_leaf, root, encode_table,
          exc, ret, pc, at, calls>>

-----------------------------------------------------------------------------
(* Bounds of the model *)

\* longest text of SpecText
MaxLen == 6
\* longest text of SpecEncode
MaxEncLen == 2
\* most entries of a frequency table of SpecBuild (and no more than there
\* are symbols in Syms)
MaxEntries == 4
\* largest count of a frequency table of SpecBuild
MaxWeight == 3
\* most entries / largest count of a frequency table of Spec and SpecEncode
MaxSeqEntries == 3
MaxSeqWeight == 1
\* most create_tree calls on one HTree instance in Spec
MaxCalls == 2

\* characters of the texts
Chars == {"a", "b", "c", "d"}
\* symbols (str values) of caller-made frequency tables; "ab" is a symbol
\* longer than one character
Syms == {<<"a">>, <<"b">>, <<"c">>, <<"a", "b">>}

-----------------------------------------------------------------------------
(* Python values *)

None == 0

\* Python `c in t` on str: c occurs in t as a contiguous substring
IsSubstr(c, t) ==
    \E i \in 0..(Len(t) - Len(c)) : SubSeq(t, i + 1, i + Len(c)) = c

\* dict item assignment d[k] = v
DictSet(d, k, v) == [x \in (DOMAIN d) \cup {k} |-> IF x = k THEN v ELSE d[x]]

EmptyDict == [x \in {} |-> <<>>]

\* a returned value: tag "str" with the string, tag "None", or "unset"
RetStr(v) == [tag |-> "str", val |-> v]
RetNone == [tag |-> "None", val |-> <<>>]
RetUnset == [tag |-> "unset", val |-> <<>>]

-----------------------------------------------------------------------------
(* class Node *)

Node(chars, count) ==
    [chars |-> chars, weight |-> count, left |-> None, right |-> None]

\* Node.__lt__
NodeLtGreater(a, b) == a.weight > b.weight
NodeLt(a, b) == a.weight < b.weight

-----------------------------------------------------------------------------
(* heapq on a list of node references; positions are Python's (0-based) *)

RECURSIVE SiftDownLoop(_, _, _, _, _)
SiftDownLoop(ns, heap, newitem, startpos, pos) ==
    IF pos > startpos
    THEN LET parentpos == (pos - 1) \div 2
             parent == heap[parentpos + 1]
         IN  IF NodeLt(ns[newitem], ns[parent])
             THEN SiftDownLoop(ns, [heap EXCEPT ![pos + 1] = parent],
                               newitem, startpos, parentpos)
             ELSE [heap EXCEPT ![pos + 1] = newitem]
    ELSE [heap EXCEPT ![pos + 1] = newitem]

siftdown(ns, heap, startpos, pos) ==
    SiftDownLoop(ns, heap, heap[pos + 1], startpos, pos)

RECURSIVE SiftUpLoop(_, _, _, _, _)
SiftUpLoop(ns, heap, newitem, startpos, pos) ==
    LET endpos == Len(heap)
        childpos == 2 * pos + 1
        rightpos == childpos + 1
    IN  IF childpos < endpos
        THEN LET child == IF rightpos < endpos
                             /\ ~NodeLt(ns[heap[childpos + 1]], ns[heap[rightpos + 1]])
                          THEN rightpos ELSE childpos
             IN  SiftUpLoop(ns, [heap EXCEPT ![pos + 1] = heap[child + 1]],
                            newitem, startpos, child)
        ELSE siftdown(ns, [heap EXCEPT ![pos + 1] = newitem], startpos, pos)

siftup(ns, heap, pos) == SiftUpLoop(ns, heap, heap[pos + 1], pos, pos)

heappush(ns, heap, item) ==
    siftdown(ns, Append(heap, item), 0, Len(heap))

\* the popped item and the list left
heappopLast(ns, heap) ==
    [item |-> heap[Len(heap)], heap |-> SubSeq(heap, 1, Len(heap) - 1)]
heappop(ns, heap) ==
    LET lastelt == heap[Len(heap)]
        rest == SubSeq(heap, 1, Len(heap) - 1)
    IN  IF rest # <<>>
        THEN [item |-> rest[1], heap |-> siftup(ns, [rest EXCEPT ![1] = lastelt], 0)]
        ELSE [item |-> lastelt, heap |-> rest]

RECURSIVE HeapifyLoop(_, _, _)
HeapifyLoop(ns, heap, i) ==
    IF i < 0 THEN heap ELSE HeapifyLoop(ns, siftup(ns, heap, i), i - 1)

heapify(ns, heap) == HeapifyLoop(ns, heap, (Len(heap) \div 2) - 1)

-----------------------------------------------------------------------------
(* HTree.create_tree *)

\* line 56: one Node per entry, in freq order
Leaves(f) == [i \in 1..Len(f) |-> Node(f[i][1], f[i][2])]

\* lines 67-71: the parent of l and r
ParentLeftOnly(ns, l, r) ==
    [chars |-> ns[l].chars \o ns[r].chars, weight |-> ns[l].weight,
     left |-> l, right |-> r]
Parent(ns, l, r) ==
    [chars |-> ns[l].chars \o ns[r].chars,
     weight |-> ns[l].weight + ns[r].weight,
     left |-> l, right |-> r]

\* lines 125-134: __encode_char_by_tree__; .chars or .left of None raises
RECURSIVE Walk(_, _, _, _)
Walk(ns, cur, c, code) ==
    IF cur = None THEN [exc |-> "AttributeError", code |-> code]
    ELSE IF ns[cur].chars = c THEN [exc |-> "", code |-> code]
    ELSE IF ns[cur].left = None THEN [exc |-> "AttributeError", code |-> code]
    ELSE IF IsSubstr(c, ns[ns[cur].left].chars)
         THEN Walk(ns, ns[cur].left, c, code \o <<"0">>)
         ELSE Walk(ns, ns[cur].right, c, code \o <<"1">>)

encode_char_by_treeBitsSwapped(ns, rt, c) ==
    LET w == Walk(ns, rt, c, <<>>)
    IN  [exc |-> w.exc,
         code |-> [i \in 1..Len(w.code) |-> IF w.code[i] = "0" THEN "1" ELSE "0"]]
encode_char_by_tree(ns, rt, c) == Walk(ns, rt, c, <<>>)

\* lines 113-116: __h_tree_to_table__, entry i onwards; an exception leaves
\* the entries written so far
RECURSIVE TableLoop(_, _, _, _, _)
TableLoop(ns, rt, f, i, table) ==
    IF i > Len(f) THEN [exc |-> "", table |-> table]
    ELSE LET w == encode_char_by_tree(ns, rt, f[i][1])
         IN  IF w.exc # "" THEN [exc |-> w.exc, table |-> table]
             ELSE TableLoop(ns, rt, f, i + 1, DictSet(table, f[i][1], w.code))

h_tree_to_table(ns, rt, f, table) == TableLoop(ns, rt, f, 1, table)

\* lines 64-73: one iteration of the merge loop
MergeStep(ns, heap) ==
    LET p1 == heappop(ns, heap)
        p2 == heappop(ns, p1.heap)
        ns2 == Append(ns, Parent(ns, p1.item, p2.item))
    IN  [nodes |-> ns2, heap |-> heappush(ns2, p2.heap, Len(ns2))]

RECURSIVE MergeLoop(_, _)
MergeLoop(ns, heap) ==
    IF Len(heap) > 1
    THEN LET st == MergeStep(ns, heap) IN MergeLoop(st.nodes, st.heap)
    ELSE [nodes |-> ns, heap |-> heap]

\* lines 75-77 on the queue left by the loop: the new fields of self
Finish(self, ns, heap, f) ==
    IF heap = <<>>
    THEN [root |-> self.root, nodes |-> self.nodes,
          encode_table |-> self.encode_table, exc |-> "IndexError"]
    ELSE LET t == h_tree_to_table(ns, heap[1], f, self.encode_table)
         IN  [root |-> heap[1], nodes |-> ns, encode_table |-> t.table, exc |-> t.exc]

\* the whole of create_tree(self, freq)
create_tree(self, f) ==
    LET st == MergeLoop(Leaves(f), heapify(Leaves(f), [i \in 1..Len(f) |-> i]))
    IN  Finish(self, st.nodes, st.heap, f)

\* HTree(): lines 44-46
NewHTree == [root |-> None, nodes |-> <<>>, encode_table |-> EmptyDict]

\* HTree.encode_char: dict.get
encode_charDefaultEmpty(table, c) ==
    IF c \in DOMAIN table THEN RetStr(table[c]) ELSE RetStr(<<>>)
encode_char(table, c) ==
    IF c \in DOMAIN table THEN RetStr(table[c]) ELSE RetNone

-----------------------------------------------------------------------------
(* frequencies *)

RECURSIVE CountFrom(_, _, _)
\* s.count(c) for a one-character c: a scan of s from position i
CountFrom(s, ch, i) ==
    IF i > Len(s) THEN 0
    ELSE (IF s[i] = ch THEN 1 ELSE 0) + CountFrom(s, ch, i + 1)

\* lines 156-161 from position i, with the lists symbols and freq so far
RECURSIVE FreqLoop(_, _, _, _)
FreqLoop(s, i, symbols, fq) ==
    IF i > Len(s) THEN fq
    ELSE IF \E k \in 1..Len(symbols) : symbols[k] = s[i]
         THEN FreqLoop(s, i + 1, symbols, fq)
         ELSE FreqLoop(s, i + 1, Append(symbols, s[i]),
                       Append(fq, << <<s[i]>>, CountFrom(s, s[i], 1) >>))

frequenciesEveryPosition(s) ==
    [i \in 1..Len(s) |-> << <<s[i]>>, CountFrom(s, s[i], 1) >>]
frequencies(s) == FreqLoop(s, 1, <<>>, <<>>)

-----------------------------------------------------------------------------
(* encode *)

\* lines 180-182 from position i: h_code += None raises TypeError
RECURSIVE EncodeLoop(_, _, _, _)
EncodeLoop(table, s, i, h_code) ==
    IF i > Len(s) THEN [exc |-> "", ret |-> RetStr(h_code), at |-> Len(s)]
    ELSE LET encoded_c == encode_char(table, <<s[i]>>)
         IN  IF encoded_c.tag = "None"
             THEN [exc |-> "TypeError", ret |-> RetUnset, at |-> i]
             ELSE EncodeLoop(table, s, i + 1, h_code \o encoded_c.val)

\* encode(freq, s): the outcome, and the HTree h_t it built
encode(f, s) ==
    IF Len(f) <= 1
    THEN [exc |-> "", ret |-> RetNone, at |-> 0, h_t |-> NewHTree]
    ELSE LET h_t == create_tree(NewHTree, f)
         IN  IF h_t.exc # ""
             THEN [exc |-> h_t.exc, ret |-> RetUnset, at |-> 0, h_t |-> h_t]
             ELSE LET r == EncodeLoop(h_t.encode_table, s, 1, <<>>)
                  IN  [exc |-> r.exc, ret |-> r.ret, at |-> r.at, h_t |-> h_t]

-----------------------------------------------------------------------------
(* frequency tables a caller may hand in: no duplicate symbols, counts > 0 *)

TablesOf(n, w) ==
    UNION { { f \in [1..k -> Syms \X (1..w)] :
                \A i, j \in 1..k : i # j => f[i][1] # f[j][1] } : k \in 0..n }

FreqTables == TablesOf(MaxEntries, MaxWeight)
SeqTables == TablesOf(MaxSeqEntries, MaxSeqWeight)

-----------------------------------------------------------------------------
(* SpecBuild: one create_tree(freq) on a fresh HTree, step by step *)

InitBuild ==
    /\ freq \in FreqTables
    /\ text = <<>>
    /\ nodes = <<>>
    /\ free_leaves = <<>>
    /\ l_leaf = None
    /\ r_leaf = None
    /\ root = None
    /\ encode_table = EmptyDict
    /\ exc = ""
    /\ ret = RetUnset
    /\ pc = "start"
    /\ at = 0
    /\ calls = 0

\* lines 56-57
Heapify ==
    /\ pc = "start"
    /\ nodes' = Leaves(freq)
    /\ free_leaves' = heapify(Leaves(freq), [i \in 1..Len(freq) |-> i])
    /\ pc' = "loop"
    /\ UNCHANGED <<text, freq, l_leaf, r_leaf, root, encode_table, exc, ret, at, calls>>

\* line 64
PopL ==
    /\ pc = "loop"
    /\ Len(free_leaves) > 1
    /\ LET p == heappop(nodes, free_leaves)
       IN  /\ l_leaf' = p.item
           /\ free_leaves' = p.heap
    /\ pc' = "popped_l"
    /\ UNCHANGED <<text, freq, nodes, r_leaf, root, encode_table, exc, ret, at, calls>>

\* line 65
PopR ==
    /\ pc = "popped_l"
    /\ LET p == heappop(nodes, free_leaves)
       IN  /\ r_leaf' = p.item
           /\ free_leaves' = p.heap
    /\ pc' = "popped_r"
    /\ UNCHANGED <<text, freq, nodes, l_leaf, root, encode_table, exc, ret, at, calls>>

\* lines 67-73
Push ==
    /\ pc = "popped_r"
    /\ nodes' = Append(nodes, Parent(nodes, l_leaf, r_leaf))
    /\ free_leaves' = heappush(nodes', free_leaves, Len(nodes'))
    /\ pc' = "loop"
    /\ UNCHANGED <<text, freq, l_leaf, r_leaf, root, encode_table, exc, ret, at, calls>>

\* lines 75-77
Done ==
    /\ pc = "loop"
    /\ Len(free_leaves) <= 1
    /\ LET r == Finish([root |-> root, nodes |-> nodes, encode_table |-> encode_table],
                       nodes, free_leaves, freq)
       IN  /\ root' = r.root
           /\ encode_table' = r.encode_table
           /\ exc' = r.exc
    /\ pc' = "done"
    /\ calls' = calls + 1
    /\ UNCHANGED <<text, freq, nodes, free_leaves, l_leaf, r_leaf, ret, at>>

NextBuild == Heapify \/ PopL \/ PopR \/ Push \/ Done

SpecBuild == InitBuild /\ [][NextBuild]_vars

-----------------------------------------------------------------------------
(* SpecText: the script of lines 190-192, fq = frequencies(test) and then  *)
(* encode(fq, test), for every text of at most MaxLen characters           *)

RECURSIVE SeqsUpTo(_, _)
\* the sequences over S of length at most n
SeqsUpTo(S, n) ==
    IF n = 0 THEN {<<>>}
    ELSE LET shorter == SeqsUpTo(S, n - 1)
         IN  shorter \cup {Append(q, x) : q \in {r \in shorter : Len(r) = n - 1}, x \in S}

Texts == SeqsUpTo(Chars, MaxLen)
EncTexts == SeqsUpTo(Chars, MaxEncLen)

InitText ==
    /\ text \in Texts
    /\ freq = <<>>
    /\ nodes = <<>>
    /\ free_leaves = <<>>
    /\ l_leaf = None
    /\ r_leaf = None
    /\ root = None
    /\ encode_table = EmptyDict
    /\ exc = ""
    /\ ret = RetUnset
    /\ pc = "text"
    /\ at = 0
    /\ calls = 0

\* line 190
Frequencies ==
    /\ pc = "text"
    /\ freq' = frequencies(text)
    /\ pc' = "ready"
    /\ UNCHANGED <<text, nodes, free_leaves, l_leaf, r_leaf, root, encode_table,
                   exc, ret, at, calls>>

\* line 192: encode(freq, text); root, nodes and encode_table show encode's h_t
Encode ==
    /\ pc = "ready"
    /\ LET r == encode(freq, text)
       IN  /\ exc' = r.exc
           /\ ret' = r.ret
           /\ at' = r.at
           /\ root' = r.h_t.root
           /\ nodes' = r.h_t.nodes
           /\ encode_table' = r.h_t.encode_table
    /\ pc' = "encoded"
    /\ UNCHANGED <<text, freq, free_leaves, l_leaf, r_leaf, calls>>

NextText == Frequencies \/ Encode

SpecText == InitText /\ [][NextText]_vars

-----------------------------------------------------------------------------
(* SpecEncode: encode(freq, s) on a frequency table the caller made and a  *)
(* text that need not be the one the table was counted from                *)

InitEncode ==
    /\ text \in EncTexts
    /\ freq \in SeqTables
    /\ nodes = <<>>
    /\ free_leaves = <<>>
    /\ l_leaf = None
    /\ r_leaf = None
    /\ root = None
    /\ encode_table = EmptyDict
    /\ exc = ""
    /\ ret = RetUnset
    /\ pc = "ready"
    /\ at = 0
    /\ calls = 0

SpecEncode == InitEncode /\ [][Encode]_vars

-----------------------------------------------------------------------------
(* Spec: one HTree instance, create_tree called up to MaxCalls times on    *)
(* tables of at least 2 one-character symbols, encode_char in between      *)

ValidTables == {f \in SeqTables : Len(f) >= 2 /\ \A i \in 1..Len(f) : Len(f[i][1]) = 1}

Init ==
    /\ text = <<>>
    /\ freq = <<>>
    /\ nodes = NewHTree.nodes
    /\ free_leaves = <<>>
    /\ l_leaf = None
    /\ r_leaf = None
    /\ root = NewHTree.root
    /\ encode_table = NewHTree.encode_table
    /\ exc = ""
    /\ ret = RetUnset
    /\ pc = "idle"
    /\ at = 0
    /\ calls = 0

\* h.create_tree(f), lines 48-77
CreateTree ==
    /\ calls < MaxCalls
    /\ \E f \in ValidTables :
         LET r == create_tree([root |-> root, nodes |-> nodes,
                               encode_table |-> encode_table], f)
         IN  /\ freq' = f
             /\ root' = r.root
             /\ nodes' = r.nodes
             /\ encode_table' = r.encode_table
             /\ exc' = r.exc
    /\ calls' = calls + 1
    /\ ret' = RetUnset
    /\ UNCHANGED <<text, free_leaves, l_leaf, r_leaf, pc, at>>

\* h.encode_char(c), lines 136-142; text holds the argument c
EncodeChar ==
    /\ \E c \in Syms :
         /\ text' = c
         /\ ret' = encode_char(encode_table, c)
    /\ exc' = ""
    /\ UNCHANGED <<freq, nodes, free_leaves, l_leaf, r_leaf, root, encode_table,
                   pc, at, calls>>

Next == CreateTree \/ EncodeChar

Spec == Init /\ [][Next]_vars

-----------------------------------------------------------------------------
(* Reading a built tree *)

RECURSIVE Subtree(_, _)
\* the references of the nodes of the tree under n
Subtree(ns, n) ==
    IF n = None THEN {}
    ELSE {n} \cup Subtree(ns, ns[n].left) \cup Subtree(ns, ns[n].right)

IsLeaf(ns, n) == ns[n].left = None /\ ns[n].right = None

RECURSIVE PathTo(_, _, _)
\* the path from n down to node x of its tree: "0" to the left, "1" to the right
PathTo(ns, n, x) ==
    IF n = x THEN <<>>
    ELSE IF x \in Subtree(ns, ns[n].left)
         THEN <<"0">> \o PathTo(ns, ns[n].left, x)
         ELSE <<"1">> \o PathTo(ns, ns[n].right, x)

RECURSIVE SumCounts(_, _)
SumCounts(f, i) == IF i > Len(f) THEN 0 ELSE f[i][2] + SumCounts(f, i + 1)

IsPrefix(u, v) == Len(u) <= Len(v) /\ SubSeq(v, 1, Len(u)) = u

\* the nodes waiting in the priority queue
Queued == {free_leaves[i] : i \in 1..Len(free_leaves)}

\* create_tree has been run to its end on a table of at least 2 entries
Built == pc = "done" /\ Len(freq) >= 2

-----------------------------------------------------------------------------
(* Claims on SpecBuild *)

\* C2 (as claimed): after create_tree on a table of at least 2 entries, no
\* duplicate symbols and counts > 0, no code of encode_table is a prefix of
\* the code of another symbol.
C2_PrefixFree ==
    (Built /\ exc = "") =>
        \A a, b \in DOMAIN encode_table :
            a # b => ~IsPrefix(encode_table[a], encode_table[b])

\* C4 (as claimed): create_tree on a table of 0 or 1 entries fails and
\* constructs no tree.
C4_DegenerateFails ==
    (pc = "done" /\ Len(freq) <= 1) => (exc # "" /\ root = None)

\* C7 (as claimed): a node popped from the queue was created before every
\* node of the same weight still in the queue (oldest first among ties).
C7_OldestFirst ==
    /\ pc = "popped_l" =>
         \A x \in Queued : nodes[x].weight = nodes[l_leaf].weight => l_leaf < x
    /\ pc = "popped_r" =>
         \A x \in Queued : nodes[x].weight = nodes[r_leaf].weight => r_leaf < x

\* C7 (amended): a node popped from the queue has the minimum weight of the
\* queue; l_leaf is popped before r_leaf, so l_leaf is no heavier than r_leaf.
C7_PopsMinimum ==
    /\ pc = "popped_l" =>
         \A x \in Queued : nodes[l_leaf].weight <= nodes[x].weight
    /\ pc = "popped_r" =>
         /\ \A x \in Queued : nodes[r_leaf].weight <= nodes[x].weight
         /\ nodes[l_leaf].weight <= nodes[r_leaf].weight

\* C7 witness: a pop that had to choose among nodes of equal minimum weight
C7_TieWitness ==
    /\ pc = "popped_l"
    /\ \E x \in Queued : nodes[x].weight = nodes[l_leaf].weight
    /\ \E x \in Queued : nodes[x].weight > nodes[l_leaf].weight

\* C8: after create_tree on n >= 2 entries the tree under root is a strict
\* binary tree of n leaves and n-1 internal nodes, no node shared; an
\* internal node's weight is the sum of its children's and its chars their
\* concatenation; every symbol is the chars of exactly one leaf, whose
\* weight is its count; root.weight is the sum of the counts.
C8_TreeStructure ==
    Built =>
        LET T == Subtree(nodes, root)
            L == {x \in T : IsLeaf(nodes, x)}
        IN  /\ root # None
            /\ \A x \in T : IsLeaf(nodes, x)
                            \/ (nodes[x].left # None /\ nodes[x].right # None)
            /\ Cardinality(L) = Len(freq)
            /\ Cardinality(T \ L) = Len(freq) - 1
            /\ \A x \in T \ L :
                 /\ nodes[x].weight =
                      nodes[nodes[x].left].weight + nodes[nodes[x].right].weight
                 /\ nodes[x].chars =
                      nodes[nodes[x].left].chars \o nodes[nodes[x].right].chars
                 /\ Subtree(nodes, nodes[x].left) \cap Subtree(nodes, nodes[x].right) = {}
            /\ \A i \in 1..Len(freq) :
                 /\ Cardinality({x \in L : nodes[x].chars = freq[i][1]}) = 1
                 /\ \A x \in L : nodes[x].chars = freq[i][1]
                                 => nodes[x].weight = freq[i][2]
            /\ nodes[root].weight = SumCounts(freq, 1)

\* C8 witness: a built tree of 4 leaves with a leaf at depth 3
C8_Witness ==
    /\ Built
    /\ Len(freq) = 4
    /\ \E x \in Subtree(nodes, root) :
         IsLeaf(nodes, x) /\ Len(PathTo(nodes, root, x)) = 3

\* C9 (as claimed): after create_tree on a table of at least 2 entries
\* (symbols any str), every walk ends at the symbol's leaf, encode_table has
\* exactly the symbols of freq as keys, and each code is the root-to-leaf
\* path of the symbol's leaf.
C9_TableIsPaths ==
    Built =>
        /\ exc = ""
        /\ DOMAIN encode_table = {freq[i][1] : i \in 1..Len(freq)}
        /\ \A i \in 1..Len(freq) :
             \E x \in Subtree(nodes, root) :
                 /\ IsLeaf(nodes, x)
                 /\ nodes[x].chars = freq[i][1]
                 /\ encode_table[freq[i][1]] = PathTo(nodes, root, x)

-----------------------------------------------------------------------------
(* Decoding, as the round-trip property states it: from the root, "0" goes *)
(* to the left child and "1" to the right child; at a leaf its symbol is   *)
(* emitted and the walk restarts at the root.  ok: the bits ended at the   *)
(* root, not part-way down a path.                                         *)

RECURSIVE DecodeLoop(_, _, _, _, _, _)
DecodeLoop(ns, rt, bits, i, cur, out) ==
    IF i > Len(bits) THEN [ok |-> cur = rt, text |-> out]
    ELSE LET child == IF bits[i] = "0" THEN ns[cur].left ELSE ns[cur].right
         IN  IF IsLeaf(ns, child)
             THEN DecodeLoop(ns, rt, bits, i + 1, rt, out \o ns[child].chars)
             ELSE DecodeLoop(ns, rt, bits, i + 1, child, out)

Decode(ns, rt, bits) == DecodeLoop(ns, rt, bits, 1, rt, <<>>)

-----------------------------------------------------------------------------
(* Prefix-free code assignments, by enumeration *)

\* longest code of the enumerated assignments
MaxCodeLen == 3

BitStrings == SeqsUpTo({"0", "1"}, MaxCodeLen)

\* for n symbols: the code-length profiles <<len(code 1), ..., len(code n)>>
\* of all assignments of bit strings no longer than MaxCodeLen in which no
\* code is a prefix of another
PrefixFreeProfiles ==
    [n \in 2..Cardinality(Chars) |->
        { [i \in 1..n |-> Len(a[i])] :
            a \in { b \in [1..n -> BitStrings] :
                      \A i, j \in 1..n : i # j => ~IsPrefix(b[i], b[j]) } }]

RECURSIVE WeightedLen(_, _, _)
\* sum of count * length over the entries i.. of f
WeightedLen(f, lens, i) ==
    IF i > Len(f) THEN 0 ELSE f[i][2] * lens[i] + WeightedLen(f, lens, i + 1)

\* number of positions of s holding ch
Occurrences(s, ch) == Cardinality({k \in 1..Len(s) : s[k] = ch})

\* first position of s holding ch
FirstAt(s, ch) == CHOOSE k \in 1..Len(s) : s[k] = ch /\ \A j \in 1..(k - 1) : s[j] # ch

\* encode(frequencies(text), text) has returned, text of >= 2 distinct symbols
Encoded == pc = "encoded" /\ Len(freq) >= 2

-----------------------------------------------------------------------------
(* Claims on SpecText *)

\* C1: for every text of at least 2 distinct symbols, encode(frequencies(text),
\* text) returns a bitstring that the walk over the tree of create_tree decodes
\* back to exactly the text.
C1_RoundTrip ==
    Encoded =>
        /\ exc = ""
        /\ ret.tag = "str"
        /\ Decode(nodes, root, ret.val) = [ok |-> TRUE, text |-> text]

\* C1 witness: a text of 4 distinct symbols encoded with codes of 1, 2 and 3
\* bits and decoded back
C1_Witness ==
    /\ Encoded
    /\ Len(freq) = 4
    /\ ret.tag = "str"
    /\ \E c, d \in DOMAIN encode_table :
         Len(encode_table[c]) = 1 /\ Len(encode_table[d]) = 3
    /\ Decode(nodes, root, ret.val).text = text

\* C3: for every text of at least 2 distinct symbols the bitstring of encode
\* is as long as the sum of count * len(code) over the symbols, and no
\* prefix-free assignment (codes up to MaxCodeLen bits) has a smaller
\* weighted total.
C3_WeightedOptimal ==
    Encoded =>
        /\ ret.tag = "str"
        /\ Len(ret.val) =
             WeightedLen(freq, [i \in 1..Len(freq) |-> Len(encode_table[freq[i][1]])], 1)
        /\ \A lens \in PrefixFreeProfiles[Len(freq)] :
             WeightedLen(freq, lens, 1) >= Len(ret.val)

\* C3 witness: counts that are not all equal over 3 or more symbols, so that
\* some prefix-free assignment is strictly worse than the one built
C3_Witness ==
    /\ Encoded
    /\ Len(freq) >= 3
    /\ ret.tag = "str"
    /\ \E i, j \in 1..Len(freq) : freq[i][2] > freq[j][2] + 1
    /\ \E lens \in PrefixFreeProfiles[Len(freq)] :
         /\ WeightedLen(freq, lens, 1) > Len(ret.val)
         /\ \A i \in 1..Len(freq) : lens[i] < Len(freq)

\* C6: frequencies(s) holds one pair per distinct symbol of s and no other,
\* each count the number of occurrences of its symbol, the pairs in order of
\* first occurrence; the counts sum to len(s); the empty string gives the
\* empty list.
C6_Frequencies ==
    pc \in {"ready", "encoded"} =>
        /\ \A i \in 1..Len(freq) :
             /\ Len(freq[i][1]) = 1
             /\ \E k \in 1..Len(text) : text[k] = freq[i][1][1]
             /\ freq[i][2] = Occurrences(text, freq[i][1][1])
        /\ \A k \in 1..Len(text) : \E i \in 1..Len(freq) : freq[i][1] = <<text[k]>>
        /\ \A i, j \in 1..Len(freq) :
             i < j => /\ freq[i][1] # freq[j][1]
                      /\ FirstAt(text, freq[i][1][1]) < FirstAt(text, freq[j][1][1])
        /\ SumCounts(freq, 1) = Len(text)
        /\ (text = <<>> => freq = <<>>)

\* C6 witness: a counted text whose first symbol comes back after another one
C6_Witness ==
    /\ pc = "ready"
    /\ Len(freq) >= 3
    /\ Len(text) > Len(freq)
    /\ \E k \in 3..Len(text) : text[k] = text[1] /\ text[2] # text[1]

-----------------------------------------------------------------------------
(* Claim on SpecEncode *)

\* positions of text whose symbol has no entry in encode_table
Unknown == {k \in 1..Len(text) : <<text[k]>> \notin DOMAIN encode_table}

\* encode has run on a table of >= 2 entries from which create_tree built
\* the code table without raising
EncodedWithTable ==
    pc = "encoded" /\ Len(freq) >= 2 /\ exc # "AttributeError"

\* C5: when the text holds a symbol with no entry in the code table built
\* from freq, encode raises at the first such symbol (Python's TypeError, on
\* h_code += None) and returns nothing, and encode_char gives None for it.
C5_UnknownSymbol ==
    (EncodedWithTable /\ Unknown # {}) =>
        /\ exc = "TypeError"
        /\ ret = RetUnset
        /\ at \in Unknown
        /\ \A k \in Unknown : at <= k
        /\ \A k \in Unknown : encode_char(encode_table, <<text[k]>>) = RetNone

\* C5 witness: a known symbol is encoded first, then an unknown one is met
C5_Witness ==
    /\ EncodedWithTable
    /\ Unknown # {}
    /\ 1 \notin Unknown
    /\ at = 2

-----------------------------------------------------------------------------
(* Claim on Spec *)

\* C10 (as claimed): after any sequence of create_tree calls on one HTree
\* the keys of encode_table are exactly the symbols of the latest table, each
\* code is the path of its symbol's leaf in the tree under root, and
\* encode_char gives no code for a symbol absent from the latest table.
C10_TableMatchesTree ==
    calls >= 1 =>
        /\ DOMAIN encode_table = {freq[i][1] : i \in 1..Len(freq)}
        /\ \A c \in DOMAIN encode_table :
             \E x \in Subtree(nodes, root) :
                 /\ IsLeaf(nodes, x)
                 /\ nodes[x].chars = c
                 /\ encode_table[c] = PathTo(nodes, root, x)
        /\ \A c \in Syms \ {freq[i][1] : i \in 1..Len(freq)} :
             encode_char(encode_table, c) = RetNone

=============================================================================
